---- MODULE Spec2Model ----
(***************************************************************************)
(* The batch cache of the ordering service                                 *)
(* (irohad/ordering/impl/batches_cache.cpp): the pending (MST) store, the  *)
(* available set batches_cache_ and the in-flight set used_batches_cache_, *)
(* with the two locks that guard them.                                     *)
(*                                                                         *)
(* Spec      : one caller; every public operation is one atomic step.      *)
(* ConcSpec  : several threads; one step per lock acquisition / release.   *)
(*                                                                         *)
(* Batches are values [rh, sigs]: rh is the reduced hash, sigs[k] the set  *)
(* of signers of the k-th transaction.  Every call passes a batch object   *)
(* of its own, so the only object the cache mutates in place (the resident *)
(* batch of a pending entry) is referenced by the pending store alone      *)
(* until it is promoted.                                                   *)
(***************************************************************************)
EXTENDS Integers, Sequences, FiniteSets, TLC

----------------------------------------------------------------------------
(* Bounds and the universe of inputs *)

\* longest collection handed to processReceivedProposal
MaxClaim == 1

\* calls started in a concurrent run
MaxCalls == 3

\* reduced hashes of the batches that exist
Ids == {1, 2}

\* the signers whose signatures a transaction requires
Signers == {1, 2}

\* BatchTxs[rh]: the hashes of the transactions of the batch, in order
BatchTxs == << <<1>>, <<2, 3>> >>

\* CreatedTimeOf[h]: createdTime() of the transaction with hash h
CreatedTimeOf == <<2, 2, 3>>

TxHashes == {1, 2, 3}

Threads == {1, 2}

\* the reduced hashes the concurrent threads work on
ConcIds == {1, 2}

NoBatch == [rh |-> 0, sigs |-> <<>>]

\* the value read through an iterator that was erased
Garbage == [rh |-> 0, sigs |-> << {} >>]

transactions(b) == BatchTxs[b.rh]

reducedHash(b) == b.rh

\* has_all_signatures(): every required signature is present
hasAllSignatures(b) == \A k \in DOMAIN b.sigs : b.sigs[k] = Signers

\* a fully signed batch, and three partially signed ones, of identity i
Full(i) == [rh |-> i, sigs |-> [k \in 1..Len(BatchTxs[i]) |-> Signers]]

PartA(i) == [rh |-> i, sigs |-> [k \in 1..Len(BatchTxs[i]) |-> IF k % 2 = 1 THEN {1} ELSE {2}]]

PartB(i) == [rh |-> i, sigs |-> [k \in 1..Len(BatchTxs[i]) |-> IF k % 2 = 1 THEN {2} ELSE {1}]]

PartC(i) == [rh |-> i, sigs |-> [k \in 1..Len(BatchTxs[i]) |-> IF k = 1 THEN {1} ELSE Signers]]

\* the batches callers pass to insert
InputBatches == UNION {{Full(i), PartA(i), PartB(i), PartC(i)} : i \in Ids}

\* the batches a proposal may carry
ClaimBatches == {Full(i) : i \in Ids} \cup {PartA(1)}

HashSets == SUBSET TxHashes

SeqsUpTo(S, n) == UNION {[1..k -> S] : k \in 0..n}

----------------------------------------------------------------------------
(* Helpers *)

Min(a, b) == IF a < b THEN a ELSE b

\* a function without the key k
Without(f, k) == [x \in DOMAIN f \ {k} |-> f[x]]

\* whether batch b holds a transaction whose hash is in hashes
\* (the std::any_of of removeMSTCache(hashes) and of remove)
\* the predicate with the comparison to hashes.end() turned around: some
\* transaction of the batch is not in hashes
anyTxIn_notIn(b, hashes) == \E k \in DOMAIN transactions(b) : transactions(b)[k] \notin hashes

anyTxIn(b, hashes) == \E k \in DOMAIN transactions(b) : transactions(b)[k] \in hashes

RECURSIVE count(_)
\* BatchesContext::count: the transactions of the batches of a set
count(src) ==
  IF src = {} THEN 0
  ELSE LET b == CHOOSE x \in src : TRUE
       IN  Len(transactions(b)) + count(src \ {b})

\* the order of BatchesSetType: two batches are the same element when they
\* have the same reduced hash and the same completeness
BatchKey(b) == <<reducedHash(b), hasAllSignatures(b)>>

\* BatchesSetType::find
find(batches, b) == \E x \in batches : BatchKey(x) = BatchKey(b)

EmptyContext == [batches_ |-> {}, tx_count_ |-> 0]

----------------------------------------------------------------------------
(* BatchesContext *)

\* BatchesContext::insert
BatchesContext_insert(ctx, b) ==
  LET inserted == ~find(ctx.batches_, b)
  IN  [ctx |-> [batches_ |-> IF inserted THEN ctx.batches_ \cup {b} ELSE ctx.batches_,
                tx_count_ |-> IF inserted THEN ctx.tx_count_ + Len(transactions(b))
                              ELSE ctx.tx_count_],
       inserted |-> inserted]

\* BatchesContext::removeBatch
BatchesContext_removeBatch(ctx, b) ==
  LET left == {x \in ctx.batches_ : BatchKey(x) # BatchKey(b)}
      erased == Cardinality(left) # Cardinality(ctx.batches_)
  IN  [ctx |-> [batches_ |-> left,
                tx_count_ |-> IF erased THEN ctx.tx_count_ - Len(transactions(b))
                              ELSE ctx.tx_count_],
       removed |-> erased]

\* merge that moves the batches and adds their transactions to the target's
\* count, but does not take them off the count of the set they came from
BatchesContext_merge_keepsFromCount(to, from) ==
  LET moved == {x \in from.batches_ : ~find(to.batches_, x)}
  IN  [to |-> [batches_ |-> to.batches_ \cup moved,
               tx_count_ |-> to.tx_count_ + count(moved)],
       from |-> [batches_ |-> from.batches_ \ moved,
                 tx_count_ |-> from.tx_count_]]

\* BatchesContext::merge: to.merge(from)
BatchesContext_merge(to, from) ==
  LET moved == {x \in from.batches_ : ~find(to.batches_, x)}
  IN  [to |-> [batches_ |-> to.batches_ \cup moved,
               tx_count_ |-> to.tx_count_ + count(moved)],
       from |-> [batches_ |-> from.batches_ \ moved,
                 tx_count_ |-> from.tx_count_ - count(moved)]]

\* BatchesContext::remove(pred) with the predicate of BatchesCache::remove:
\* every batch holding a transaction of hashes is erased
BatchesContext_remove(ctx, hashes) ==
  LET erased == {x \in ctx.batches_ : anyTxIn(x, hashes)}
  IN  [batches_ |-> ctx.batches_ \ erased,
       tx_count_ |-> ctx.tx_count_ - count(erased)]

----------------------------------------------------------------------------
(* The pending (MST) store *)

RECURSIVE oldestFrom(_, _, _)
oldestFrom(txs, k, ts) ==
  IF k > Len(txs) THEN ts
  ELSE oldestFrom(txs, k + 1, Min(ts, CreatedTimeOf[txs[k]]))

\* oldestTimestamp: ts starts at 0 and takes the minimum with every createdTime
oldestTimestamp(b) == oldestFrom(transactions(b), 1, 0)

RECURSIVE probe(_, _)
\* while (!mst_expirations_.emplace(ts, batch).second) ++ts;
probe(expirations, ts) ==
  IF ts \in DOMAIN expirations THEN probe(expirations, ts + 1) ELSE ts

RECURSIVE diffFrom(_, _, _)
\* one entry of diff (the target transaction) per signature that was new
diffFrom(target, donor, k) ==
  IF k > Len(target.sigs) THEN <<>>
  ELSE [j \in 1..Cardinality(donor.sigs[k] \ target.sigs[k]) |-> transactions(target)[k]]
       \o diffFrom(target, donor, k + 1)

\* the merge with the donor's iterator never advanced: every transaction of
\* the target receives the signatures of the donor's first transaction
mergeSignaturesInBatch_firstOnly(target, donor) ==
  [target |-> [rh |-> target.rh,
               sigs |-> [k \in DOMAIN target.sigs |-> target.sigs[k] \cup donor.sigs[1]]],
   inserted_new_signatures |-> \E k \in DOMAIN target.sigs : ~(donor.sigs[1] \subseteq target.sigs[k]),
   diff |-> diffFrom(target, [rh |-> donor.rh, sigs |-> [k \in DOMAIN target.sigs |-> donor.sigs[1]]], 1)]

\* mergeSignaturesInBatch: the target after the donor's signatures were added
\* position by position, whether any was new, and the diff
mergeSignaturesInBatch(target, donor) ==
  [target |-> [rh |-> target.rh,
               sigs |-> [k \in DOMAIN target.sigs |-> target.sigs[k] \cup donor.sigs[k]]],
   inserted_new_signatures |-> \E k \in DOMAIN target.sigs : ~(donor.sigs[k] \subseteq target.sigs[k]),
   diff |-> diffFrom(target, donor, 1)]

EmptyMst == [mst_pending_ |-> <<>>, mst_expirations_ |-> <<>>]

StateUpdate(b) == [type |-> "kOnMstStateUpdate", batch |-> b]

Prepared(b) == [type |-> "kOnMstPreparedBatches", batch |-> b]

\* the outcomes of locking batches_cache_cs_ in insertMSTCache (line 130):
\* "free" when the thread does not hold it; when it does (undefined for a
\* non-recursive mutex) the thread blocks on itself, the lock throws, or the
\* lock is taken once more
RelockOutcomes == {"proceed", "throw", "deadlock"}

\* insertMSTCache, first part (lines 116-127): a new entry, or the merge of the
\* batch's signatures into the resident batch.  path says what comes next.
\* the upsert with the timestamp assigned again on every merge: the entry
\* moves to the first free key of mst_expirations_
insertMSTCache_upsert_restamps(mst, batch) ==
  IF reducedHash(batch) \notin DOMAIN mst.mst_pending_
  THEN LET ts == probe(mst.mst_expirations_, oldestTimestamp(batch))
       IN  [mst |-> [mst_pending_ |-> mst.mst_pending_ @@
                        (reducedHash(batch) :> [batch |-> batch, timestamp |-> ts]),
                     mst_expirations_ |-> mst.mst_expirations_ @@ (ts :> reducedHash(batch))],
            events |-> <<StateUpdate(batch)>>,
            path |-> "inserted"]
  ELSE LET entry == mst.mst_pending_[reducedHash(batch)]
           m == mergeSignaturesInBatch(entry.batch, batch)
           ts == probe(mst.mst_expirations_, oldestTimestamp(batch))
           merged == [mst_pending_ |-> [mst.mst_pending_ EXCEPT ![reducedHash(batch)] =
                                          [batch |-> m.target, timestamp |-> ts]],
                      mst_expirations_ |-> Without(mst.mst_expirations_, entry.timestamp)
                                             @@ (ts :> reducedHash(batch))]
       IN  IF ~m.inserted_new_signatures
           THEN [mst |-> merged, events |-> <<>>, path |-> "nochange"]
           ELSE IF hasAllSignatures(m.target)
           THEN [mst |-> merged, events |-> <<>>, path |-> "complete"]
           ELSE [mst |-> merged, events |-> <<StateUpdate(m.target)>>, path |-> "updated"]

insertMSTCache_upsert(mst, batch) ==
  IF reducedHash(batch) \notin DOMAIN mst.mst_pending_
  THEN LET ts == probe(mst.mst_expirations_, oldestTimestamp(batch))
       IN  [mst |-> [mst_pending_ |-> mst.mst_pending_ @@
                        (reducedHash(batch) :> [batch |-> batch, timestamp |-> ts]),
                     mst_expirations_ |-> mst.mst_expirations_ @@ (ts :> reducedHash(batch))],
            events |-> <<StateUpdate(batch)>>,
            path |-> "inserted"]
  ELSE LET entry == mst.mst_pending_[reducedHash(batch)]
           m == mergeSignaturesInBatch(entry.batch, batch)
           merged == [mst EXCEPT !.mst_pending_[reducedHash(batch)].batch = m.target]
       IN  IF ~m.inserted_new_signatures
           THEN [mst |-> merged, events |-> <<>>, path |-> "nochange"]
           ELSE IF hasAllSignatures(m.target)
           THEN [mst |-> merged, events |-> <<>>, path |-> "complete"]
           ELSE [mst |-> merged, events |-> <<StateUpdate(m.target)>>, path |-> "updated"]

\* insertMSTCache, lines 131-135: the resident batch of rh, now complete, goes
\* to the available set and leaves both indices; the argument of the notify is
\* read through the erased iterator (read is what that read gives)
insertMSTCache_promote(mst, cache, rh, read) ==
  LET entry == mst.mst_pending_[rh]
  IN  [mst |-> [mst_pending_ |-> Without(mst.mst_pending_, rh),
                mst_expirations_ |-> Without(mst.mst_expirations_, entry.timestamp)],
       cache |-> BatchesContext_insert(cache, entry.batch).ctx,
       events |-> <<Prepared(read)>>]

\* what reading it_batch->second.batch after mst_pending_.erase(it_batch) gives
DanglingReads(b) == {b, Garbage}

\* removeMSTCache(batch)
removeMSTCache(mst, batch) ==
  IF reducedHash(batch) \in DOMAIN mst.mst_pending_
  THEN [mst_pending_ |-> Without(mst.mst_pending_, reducedHash(batch)),
        mst_expirations_ |-> Without(mst.mst_expirations_,
                                     mst.mst_pending_[reducedHash(batch)].timestamp)]
  ELSE mst

\* removeMSTCache(hashes)
\* the prune without the erase from mst_expirations_ (line 166)
removeMSTCache_hashes_keepsExpirations(mst, hashes) ==
  LET gone == {rh \in DOMAIN mst.mst_pending_ : anyTxIn(mst.mst_pending_[rh].batch, hashes)}
  IN  [mst_pending_ |-> [rh \in DOMAIN mst.mst_pending_ \ gone |-> mst.mst_pending_[rh]],
       mst_expirations_ |-> mst.mst_expirations_]

removeMSTCache_hashes(mst, hashes) ==
  LET gone == {rh \in DOMAIN mst.mst_pending_ : anyTxIn(mst.mst_pending_[rh].batch, hashes)}
  IN  [mst_pending_ |-> [rh \in DOMAIN mst.mst_pending_ \ gone |-> mst.mst_pending_[rh]],
       mst_expirations_ |-> [ts \in DOMAIN mst.mst_expirations_
                                    \ {mst.mst_pending_[rh].timestamp : rh \in gone}
                             |-> mst.mst_expirations_[ts]]]

----------------------------------------------------------------------------
(* State *)

VARIABLES
  mst_state_,           \* the pending store: mst_pending_ and mst_expirations_
  batches_cache_,       \* the available set
  used_batches_cache_,  \* the in-flight set
  last,                 \* the last call of the single caller: what it was given, what it did
  run,                  \* the run of inserts of one batch identity the caller is in
  pc,                   \* per thread: where it is in its call
  call,                 \* per thread: the call it is in
  held,                 \* per thread: the locks it holds, in the order it took them
  calls,                \* calls started by the threads
  log                   \* the calls of the threads that returned, in the order they returned

vars == <<mst_state_, batches_cache_, used_batches_cache_, last, run, pc, call, held, calls, log>>

\* what is recorded about the single caller
hist == <<last, run>>

cacheVars == <<mst_state_, batches_cache_, used_batches_cache_>>

threadVars == <<pc, call, held, calls, log>>

NoCall == [op |-> "none", batch |-> NoBatch, hashes |-> {}, batches |-> <<>>, begun |-> 0]

NoLast == [op |-> "none", batch |-> NoBatch, hashes |-> {}, batches |-> <<>>,
           ret |-> 0, prevRet |-> 0, events |-> <<>>, outcome |-> "ok", rep |-> FALSE]

NoRun == [rh |-> 0, sigs |-> <<>>]

Init ==
  /\ mst_state_ = EmptyMst
  /\ batches_cache_ = EmptyContext
  /\ used_batches_cache_ = EmptyContext
  /\ last = NoLast
  /\ run = NoRun
  /\ pc = [t \in Threads |-> "idle"]
  /\ call = [t \in Threads |-> NoCall]
  /\ held = [t \in Threads |-> <<>>]
  /\ calls = 0
  /\ log = <<>>

----------------------------------------------------------------------------
(* The operations, each as one step of a single caller *)

\* the caller is not stuck inside a call that blocked on its own lock
Running == last.outcome # "deadlock"

\* this call is an insert of the batch the call before it inserted
Repeats(op, batch, outcome) ==
  op = "insert" /\ last.op = "insert" /\ last.batch = batch
  /\ last.outcome = "ok" /\ outcome = "ok"

Returned(op, batch, hashes, batches, ret, events, outcome) ==
  [op |-> op, batch |-> batch, hashes |-> hashes, batches |-> batches,
   ret |-> ret, prevRet |-> IF Repeats(op, batch, outcome) THEN last.ret ELSE 0,
   events |-> events, outcome |-> outcome, rep |-> Repeats(op, batch, outcome)]

\* BatchesCache::insert, the branch of a fully signed batch (lines 178-183)
insert_complete(batch) ==
  LET cache == IF ~find(used_batches_cache_.batches_, batch)
               THEN BatchesContext_insert(batches_cache_, batch).ctx
               ELSE batches_cache_
  IN  /\ batches_cache_' = cache
      /\ mst_state_' = removeMSTCache(mst_state_, batch)
      /\ UNCHANGED used_batches_cache_
      /\ last' = Returned("insert", batch, {}, <<>>, cache.tx_count_, <<Prepared(batch)>>, "ok")

\* BatchesCache::insert, the branch of a partially signed batch (line 185):
\* insertMSTCache, called with batches_cache_cs_ held
insert_pending(batch) ==
  LET u == insertMSTCache_upsert(mst_state_, batch)
  IN  IF u.path # "complete"
      THEN /\ mst_state_' = u.mst
           /\ UNCHANGED <<batches_cache_, used_batches_cache_>>
           /\ last' = Returned("insert", batch, {}, <<>>, batches_cache_.tx_count_, u.events, "ok")
      ELSE \E relock \in RelockOutcomes :
             IF relock = "proceed"
             THEN \E read \in DanglingReads(u.mst.mst_pending_[reducedHash(batch)].batch) :
                    LET p == insertMSTCache_promote(u.mst, batches_cache_, reducedHash(batch), read)
                    IN  /\ mst_state_' = p.mst
                        /\ batches_cache_' = p.cache
                        /\ UNCHANGED used_batches_cache_
                        /\ last' = Returned("insert", batch, {}, <<>>, p.cache.tx_count_, p.events, "ok")
             ELSE /\ mst_state_' = u.mst
                  /\ UNCHANGED <<batches_cache_, used_batches_cache_>>
                  /\ last' = Returned("insert", batch, {}, <<>>, 0, <<>>, relock)

\* BatchesCache::insert
BatchesCache_insert(batch) ==
  IF hasAllSignatures(batch) THEN insert_complete(batch) ELSE insert_pending(batch)

\* BatchesCache::remove
BatchesCache_remove(hashes) ==
  LET m == BatchesContext_merge(batches_cache_, used_batches_cache_)
  IN  /\ mst_state_' = removeMSTCache_hashes(mst_state_, hashes)
      /\ used_batches_cache_' = m.from
      /\ batches_cache_' = BatchesContext_remove(m.to, hashes)
      /\ last' = Returned("remove", NoBatch, hashes, <<>>, 0, <<>>, "ok")

RECURSIVE claimFrom(_, _, _, _)
\* the loop of processReceivedProposal from position k on
claimFrom(batches, k, cache, used) ==
  IF k > Len(batches) THEN [cache |-> cache, used |-> used]
  ELSE claimFrom(batches, k + 1,
                 BatchesContext_removeBatch(cache, batches[k]).ctx,
                 BatchesContext_insert(used, batches[k]).ctx)

\* BatchesCache::processReceivedProposal
processReceivedProposal(batches) ==
  LET r == claimFrom(batches, 1, batches_cache_, used_batches_cache_)
  IN  /\ batches_cache_' = r.cache
      /\ used_batches_cache_' = r.used
      /\ UNCHANGED mst_state_
      /\ last' = Returned("claim", NoBatch, {}, batches, 0, <<>>, "ok")

pendingIds == DOMAIN mst_state_.mst_pending_

availableIds == {reducedHash(b) : b \in batches_cache_.batches_}

inFlightIds == {reducedHash(b) : b \in used_batches_cache_.batches_}

\* the run after insert(batch): the signatures inserted so far, position by
\* position, in consecutive inserts of one identity that was in no store when
\* the first of them began
runAfter(batch) ==
  IF run.rh = reducedHash(batch)
  THEN [rh |-> run.rh, sigs |-> [k \in DOMAIN batch.sigs |-> run.sigs[k] \cup batch.sigs[k]]]
  ELSE IF reducedHash(batch) \notin pendingIds \cup availableIds \cup inFlightIds
  THEN [rh |-> reducedHash(batch), sigs |-> batch.sigs]
  ELSE NoRun

Insert ==
  /\ Running
  /\ UNCHANGED threadVars
  /\ \E batch \in InputBatches :
       /\ BatchesCache_insert(batch)
       /\ run' = IF last'.outcome = "ok" THEN runAfter(batch) ELSE NoRun

Remove ==
  /\ Running
  /\ UNCHANGED threadVars
  /\ run' = NoRun
  /\ \E hashes \in HashSets : BatchesCache_remove(hashes)

Claim ==
  /\ Running
  /\ UNCHANGED threadVars
  /\ run' = NoRun
  /\ \E batches \in SeqsUpTo(ClaimBatches, MaxClaim) : processReceivedProposal(batches)

Next == Insert \/ Remove \/ Claim

Spec == Init /\ [][Next]_vars

----------------------------------------------------------------------------
(* The operations as steps of concurrent threads.  A step is the acquisition *)
(* of a lock, or the code run under the locks held up to the next            *)
(* acquisition or release.                                                   *)

\* the calls the threads make
ConcBatches == {b \in InputBatches : reducedHash(b) \in ConcIds}

ConcHashSets == SUBSET {h \in TxHashes : \E i \in ConcIds : \E k \in DOMAIN BatchTxs[i] : BatchTxs[i][k] = h}

ConcClaims == SeqsUpTo({b \in ClaimBatches : reducedHash(b) \in ConcIds}, MaxClaim)

Holds(t, lock) == \E k \in DOMAIN held[t] : held[t][k] = lock

\* batches_cache_cs_ can be locked exclusively: nobody holds it in any mode
CacheFree == \A u \in Threads : ~Holds(u, "L_cache") /\ ~Holds(u, "L_cache_shared")

\* batches_cache_cs_ can be locked shared: nobody holds it exclusively
CacheFreeShared == \A u \in Threads : ~Holds(u, "L_cache")

\* mst_state_ can be accessed exclusively
PendingFree == \A u \in Threads : ~Holds(u, "L_pending")

Acquire(t, lock) == held' = [held EXCEPT ![t] = Append(@, lock)]

\* the lock taken last is released
Release(t) == held' = [held EXCEPT ![t] = SubSeq(@, 1, Len(@) - 1)]

Goto(t, where) == pc' = [pc EXCEPT ![t] = where]

\* a call as it begins; begun is the number of calls that had returned by then
Called(op, batch, hashes, batches) ==
  [op |-> op, batch |-> batch, hashes |-> hashes, batches |-> batches, begun |-> Len(log)]

\* the call of thread t returns ret, or ends with an exception
Returns(t, ret, outcome) ==
  log' = Append(log, [op |-> call[t].op, batch |-> call[t].batch, hashes |-> call[t].hashes,
                      batches |-> call[t].batches, begun |-> call[t].begun,
                      ret |-> ret, outcome |-> outcome])

\* a thread enters one of the public operations
Start(t) ==
  /\ pc[t] = "idle"
  /\ calls < MaxCalls
  /\ calls' = calls + 1
  /\ \/ \E b \in ConcBatches :
          call' = [call EXCEPT ![t] = Called("insert", b, {}, <<>>)] /\ Goto(t, "insert_lock")
     \/ \E h \in ConcHashSets :
          call' = [call EXCEPT ![t] = Called("remove", NoBatch, h, <<>>)] /\ Goto(t, "remove_prune_lock")
     \/ \E bs \in ConcClaims :
          call' = [call EXCEPT ![t] = Called("claim", NoBatch, {}, bs)] /\ Goto(t, "claim_lock")
     \/ call' = [call EXCEPT ![t] = Called("txsCount", NoBatch, {}, <<>>)] /\ Goto(t, "read_lock")
  /\ UNCHANGED <<cacheVars, hist, held, log>>

\* insert, line 176: std::unique_lock lock(batches_cache_cs_); then, for a
\* fully signed batch, lines 179-181
insert_lock(t) ==
  /\ pc[t] = "insert_lock"
  /\ CacheFree
  /\ Acquire(t, "L_cache")
  /\ IF hasAllSignatures(call[t].batch)
     THEN /\ batches_cache_' = IF ~find(used_batches_cache_.batches_, call[t].batch)
                               THEN BatchesContext_insert(batches_cache_, call[t].batch).ctx
                               ELSE batches_cache_
          /\ Goto(t, "removeMST_lock")
     ELSE /\ UNCHANGED batches_cache_
          /\ Goto(t, "insertMST_lock")
  /\ UNCHANGED <<mst_state_, used_batches_cache_, hist, call, calls, log>>

\* removeMSTCache(batch), line 147: mst_state_.exclusiveAccess
removeMST_lock(t) ==
  /\ pc[t] = "removeMST_lock"
  /\ PendingFree
  /\ Acquire(t, "L_pending")
  /\ Goto(t, "removeMST_body")
  /\ UNCHANGED <<cacheVars, hist, call, calls, log>>

\* removeMSTCache(batch), lines 148-153, and the end of insert (lines 183-187)
removeMST_body(t) ==
  /\ pc[t] = "removeMST_body"
  /\ mst_state_' = removeMSTCache(mst_state_, call[t].batch)
  /\ held' = [held EXCEPT ![t] = <<>>]
  /\ Returns(t, batches_cache_.tx_count_, "ok")
  /\ Goto(t, "idle")
  /\ UNCHANGED <<batches_cache_, used_batches_cache_, hist, call, calls>>

\* insertMSTCache, line 116: mst_state_.exclusiveAccess
insertMST_lock(t) ==
  /\ pc[t] = "insertMST_lock"
  /\ PendingFree
  /\ Acquire(t, "L_pending")
  /\ Goto(t, "insertMST_body")
  /\ UNCHANGED <<cacheVars, hist, call, calls, log>>

\* insertMSTCache, lines 117-128: unless the merge completed the resident
\* batch, the call ends here (lines 141-143 and 187)
insertMST_body(t) ==
  /\ pc[t] = "insertMST_body"
  /\ LET u == insertMSTCache_upsert(mst_state_, call[t].batch)
     IN  /\ mst_state_' = u.mst
         /\ IF u.path = "complete"
            THEN Goto(t, "insertMST_relock") /\ UNCHANGED <<held, log>>
            ELSE /\ Goto(t, "idle")
                 /\ held' = [held EXCEPT ![t] = <<>>]
                 /\ Returns(t, batches_cache_.tx_count_, "ok")
  /\ UNCHANGED <<batches_cache_, used_batches_cache_, hist, call, calls>>

\* insertMSTCache, line 130: std::unique_lock lock(batches_cache_cs_)
insertMST_relock(t) ==
  /\ pc[t] = "insertMST_relock"
  /\ IF Holds(t, "L_cache")
     THEN \E relock \in RelockOutcomes :
            CASE relock = "proceed" ->
                   Acquire(t, "L_cache") /\ Goto(t, "insertMST_promote") /\ UNCHANGED log
              [] relock = "throw" ->
                   held' = [held EXCEPT ![t] = <<>>] /\ Goto(t, "idle") /\ Returns(t, 0, "throw")
              [] relock = "deadlock" -> UNCHANGED <<held, log>> /\ Goto(t, "hung")
     ELSE CacheFree /\ Acquire(t, "L_cache") /\ Goto(t, "insertMST_promote") /\ UNCHANGED log
  /\ UNCHANGED <<cacheVars, hist, call, calls>>

\* insertMSTCache, lines 131-135 and 141-143, and the end of insert (line 187)
insertMST_promote(t) ==
  /\ pc[t] = "insertMST_promote"
  /\ LET rh == reducedHash(call[t].batch)
         p == insertMSTCache_promote(mst_state_, batches_cache_, rh,
                                     mst_state_.mst_pending_[rh].batch)
     IN  /\ mst_state_' = p.mst
         /\ batches_cache_' = p.cache
         /\ Returns(t, p.cache.tx_count_, "ok")
  /\ held' = [held EXCEPT ![t] = <<>>]
  /\ Goto(t, "idle")
  /\ UNCHANGED <<used_batches_cache_, hist, call, calls>>

\* remove, line 192: removeMSTCache(hashes), line 157: mst_state_.exclusiveAccess
remove_prune_lock(t) ==
  /\ pc[t] = "remove_prune_lock"
  /\ PendingFree
  /\ Acquire(t, "L_pending")
  /\ Goto(t, "remove_prune")
  /\ UNCHANGED <<cacheVars, hist, call, calls, log>>

\* removeMSTCache(hashes), lines 158-171
remove_prune(t) ==
  /\ pc[t] = "remove_prune"
  /\ mst_state_' = removeMSTCache_hashes(mst_state_, call[t].hashes)
  /\ Release(t)
  /\ Goto(t, "remove_lock")
  /\ UNCHANGED <<batches_cache_, used_batches_cache_, hist, call, calls, log>>

\* remove, line 194: std::unique_lock lock(batches_cache_cs_)
remove_lock(t) ==
  /\ pc[t] = "remove_lock"
  /\ CacheFree
  /\ Acquire(t, "L_cache")
  /\ Goto(t, "remove_body")
  /\ UNCHANGED <<cacheVars, hist, call, calls, log>>

\* remove, lines 195-205
remove_body(t) ==
  /\ pc[t] = "remove_body"
  /\ LET m == BatchesContext_merge(batches_cache_, used_batches_cache_)
     IN  /\ used_batches_cache_' = m.from
         /\ batches_cache_' = BatchesContext_remove(m.to, call[t].hashes)
  /\ Release(t)
  /\ Returns(t, 0, "ok")
  /\ Goto(t, "idle")
  /\ UNCHANGED <<mst_state_, hist, call, calls>>

\* processReceivedProposal, line 231: std::unique_lock lock(batches_cache_cs_)
claim_lock(t) ==
  /\ pc[t] = "claim_lock"
  /\ CacheFree
  /\ Acquire(t, "L_cache")
  /\ Goto(t, "claim_body")
  /\ UNCHANGED <<cacheVars, hist, call, calls, log>>

\* processReceivedProposal, lines 232-236
claim_body(t) ==
  /\ pc[t] = "claim_body"
  /\ LET r == claimFrom(call[t].batches, 1, batches_cache_, used_batches_cache_)
     IN  /\ batches_cache_' = r.cache
         /\ used_batches_cache_' = r.used
  /\ Release(t)
  /\ Returns(t, 0, "ok")
  /\ Goto(t, "idle")
  /\ UNCHANGED <<mst_state_, hist, call, calls>>

\* txsCount, line 213: std::shared_lock lock(batches_cache_cs_)
read_lock(t) ==
  /\ pc[t] = "read_lock"
  /\ CacheFreeShared
  /\ Acquire(t, "L_cache_shared")
  /\ Goto(t, "read_body")
  /\ UNCHANGED <<cacheVars, hist, call, calls, log>>

\* txsCount, lines 214-215
read_body(t) ==
  /\ pc[t] = "read_body"
  /\ Returns(t, batches_cache_.tx_count_ + used_batches_cache_.tx_count_, "ok")
  /\ Release(t)
  /\ Goto(t, "idle")
  /\ UNCHANGED <<cacheVars, hist, call, calls>>

ConcNext ==
  \E t \in Threads :
    \/ Start(t)
    \/ insert_lock(t)
    \/ removeMST_lock(t)
    \/ removeMST_body(t)
    \/ insertMST_lock(t)
    \/ insertMST_body(t)
    \/ insertMST_relock(t)
    \/ insertMST_promote(t)
    \/ remove_prune_lock(t)
    \/ remove_prune(t)
    \/ remove_lock(t)
    \/ remove_body(t)
    \/ claim_lock(t)
    \/ claim_body(t)
    \/ read_lock(t)
    \/ read_body(t)

ConcSpec == Init /\ [][ConcNext]_vars

----------------------------------------------------------------------------
(* Properties *)

allStored ==
  {mst_state_.mst_pending_[rh].batch : rh \in pendingIds}
    \cup batches_cache_.batches_ \cup used_batches_cache_.batches_

emitted(type) == \E k \in DOMAIN last.events : last.events[k].type = type

\* C1: no reduced hash is in more than one of the pending store, the
\* available set and the in-flight set.
C1_StoresDisjoint ==
  /\ pendingIds \cap availableIds = {}
  /\ pendingIds \cap inFlightIds = {}
  /\ availableIds \cap inFlightIds = {}

C4_CompletedIsAvailableOnce ==
  (run.rh # 0 /\ \A k \in DOMAIN run.sigs : run.sigs[k] = Signers) =>
    /\ Cardinality({b \in batches_cache_.batches_ : reducedHash(b) = run.rh}) = 1
    /\ run.rh \notin pendingIds

\* C5: the cached transaction count of the available set is the number of
\* transactions of its batches, and so is that of the in-flight set.
C5_TxCountIsSum ==
  /\ batches_cache_.tx_count_ = count(batches_cache_.batches_)
  /\ used_batches_cache_.tx_count_ = count(used_batches_cache_.batches_)

\* C5, witness: after a claim both sets hold batches, and their transaction
\* counts differ.
C5_Witness ==
  /\ last.op = "claim"
  /\ batches_cache_.tx_count_ > 0
  /\ used_batches_cache_.tx_count_ > 0
  /\ batches_cache_.tx_count_ # used_batches_cache_.tx_count_

\* C6: every batch of the available set has all its signatures.
C6_AvailableFullySigned == \A b \in batches_cache_.batches_ : hasAllSignatures(b)

\* C7: a batch identity enters the in-flight set only out of the available
\* set: one that is new in the in-flight set after a step was in the available
\* set, and not in the pending store, before it.
C7_InFlightOnlyFromAvailable ==
  [][\A i \in inFlightIds' \ inFlightIds : i \in availableIds /\ i \notin pendingIds]_vars

\* C8: when a fully signed batch is inserted twice in a row, both calls return
\* the same count and the second emits no Prepared event.
C8_SecondInsertSilent ==
  (last.rep /\ hasAllSignatures(last.batch)) =>
    last.ret = last.prevRet /\ ~emitted("kOnMstPreparedBatches")

\* a thread in a call has a step to take, or waits for a lock that a thread
\* with a step to take holds
Progress ==
  \E t \in Threads :
    \/ insert_lock(t) \/ removeMST_lock(t) \/ removeMST_body(t)
    \/ insertMST_lock(t) \/ insertMST_body(t) \/ insertMST_relock(t)
    \/ insertMST_promote(t)
    \/ remove_prune_lock(t) \/ remove_prune(t) \/ remove_lock(t) \/ remove_body(t)
    \/ claim_lock(t) \/ claim_body(t) \/ read_lock(t) \/ read_body(t)

\* C9: no reachable state is a deadlock: while a thread is inside a call,
\* some thread can take a step of its call.
C9_NoDeadlock == (\E t \in Threads : pc[t] # "idle") => ENABLED Progress

\* C10: no thread takes or requests the pending lock while it holds the cache
\* lock; a thread that holds both took the pending lock first.
C10_PendingBeforeCache ==
  \A t \in Threads :
    /\ pc[t] \in {"removeMST_lock", "insertMST_lock", "remove_prune_lock"}
         => ~Holds(t, "L_cache")
    /\ \A i, j \in DOMAIN held[t] :
         (i < j /\ held[t][j] = "L_pending") => held[t][i] # "L_cache"

----------------------------------------------------------------------------
(* Linearizability of the concurrent calls *)

\* what one call does when it runs alone from the stores s = [mst, cache, used]:
\* the stores after it, what it returns and how it ends.  Where the call
\* re-locks batches_cache_cs_ (line 130) it ends as the logged call c ended.
applyCall(s, c) ==
  CASE c.op = "insert" /\ hasAllSignatures(c.batch) ->
         LET cache == IF ~find(s.used.batches_, c.batch)
                      THEN BatchesContext_insert(s.cache, c.batch).ctx
                      ELSE s.cache
         IN  [s |-> [mst |-> removeMSTCache(s.mst, c.batch), cache |-> cache, used |-> s.used],
              ret |-> cache.tx_count_, outcome |-> "ok"]
    [] c.op = "insert" /\ ~hasAllSignatures(c.batch) ->
         LET u == insertMSTCache_upsert(s.mst, c.batch)
             rh == reducedHash(c.batch)
         IN  IF u.path # "complete"
             THEN [s |-> [s EXCEPT !.mst = u.mst], ret |-> s.cache.tx_count_, outcome |-> "ok"]
             ELSE IF c.outcome = "throw"
             THEN [s |-> [s EXCEPT !.mst = u.mst], ret |-> 0, outcome |-> "throw"]
             ELSE LET p == insertMSTCache_promote(u.mst, s.cache, rh, u.mst.mst_pending_[rh].batch)
                  IN  [s |-> [mst |-> p.mst, cache |-> p.cache, used |-> s.used],
                       ret |-> p.cache.tx_count_, outcome |-> "ok"]
    [] c.op = "remove" ->
         LET m == BatchesContext_merge(s.cache, s.used)
         IN  [s |-> [mst |-> removeMSTCache_hashes(s.mst, c.hashes),
                     cache |-> BatchesContext_remove(m.to, c.hashes),
                     used |-> m.from],
              ret |-> 0, outcome |-> "ok"]
    [] c.op = "claim" ->
         LET r == claimFrom(c.batches, 1, s.cache, s.used)
         IN  [s |-> [mst |-> s.mst, cache |-> r.cache, used |-> r.used],
              ret |-> 0, outcome |-> "ok"]
    [] OTHER ->
         [s |-> s, ret |-> s.cache.tx_count_ + s.used.tx_count_, outcome |-> "ok"]

RECURSIVE agreesFrom(_, _, _)
\* the logged calls, run one at a time in the given order from stores s, return
\* what they returned in the log and leave the stores as they are now
agreesFrom(s, order, k) ==
  IF k > Len(order)
  THEN s = [mst |-> mst_state_, cache |-> batches_cache_, used |-> used_batches_cache_]
  ELSE LET c == log[order[k]]
           r == applyCall(s, c)
       IN  r.ret = c.ret /\ r.outcome = c.outcome /\ agreesFrom(r.s, order, k + 1)

\* the orders of the logged calls in which a call that returned before another
\* began comes first
realTimeOrders ==
  {order \in [1..Len(log) -> 1..Len(log)] :
     /\ \A a, b \in 1..Len(log) : a # b => order[a] # order[b]
     /\ \A a, b \in 1..Len(log) : a < b => ~(order[b] <= log[order[a]].begun)}

Quiescent == \A t \in Threads : pc[t] = "idle"

\* C11: when no call is in progress, the results of the calls made and the
\* stores are those of the same calls made one at a time in some order that
\* keeps the order of calls that did not overlap.
C11_Linearizable ==
  Quiescent =>
    \E order \in realTimeOrders :
      agreesFrom([mst |-> EmptyMst, cache |-> EmptyContext, used |-> EmptyContext], order, 1)

----------------------------------------------------------------------------
(* Events *)

\* C12: a Prepared event emitted by the last call carries a batch that has all
\* its signatures and is in the available set.
C12_PreparedIsAvailable ==
  \A k \in DOMAIN last.events :
    last.events[k].type = "kOnMstPreparedBatches" =>
      /\ hasAllSignatures(last.events[k].batch)
      /\ find(batches_cache_.batches_, last.events[k].batch)

\* the events a step emitted are exactly one event of the given type, or none
emitsOnly(type) ==
  /\ Len(last'.events) = 1
  /\ last'.events[1].type = type

\* C13: an insert of a partially signed batch emits StateUpdated exactly when
\* the batch is new in the pending store or brings a new signature and the
\* resident batch stays incomplete, emits nothing when it brings no new
\* signature, and emits Prepared alone when it completes the resident batch;
\* remove and claim emit nothing.
C13_EventsOfInsert ==
  [][/\ last'.op \in {"remove", "claim"} => last'.events = <<>>
     /\ (last'.op = "insert" /\ ~hasAllSignatures(last'.batch)) =>
          LET b == last'.batch
              rh == reducedHash(b)
              isNew == rh \notin pendingIds
              resident == mst_state_.mst_pending_[rh].batch
              brings == \E k \in DOMAIN b.sigs : ~(b.sigs[k] \subseteq resident.sigs[k])
              completes == \A k \in DOMAIN b.sigs : resident.sigs[k] \cup b.sigs[k] = Signers
          IN  IF isNew THEN emitsOnly("kOnMstStateUpdate")
              ELSE IF ~brings THEN last'.events = <<>>
              ELSE IF completes THEN emitsOnly("kOnMstPreparedBatches")
              ELSE emitsOnly("kOnMstStateUpdate")]_vars

----------------------------------------------------------------------------
(* Claim followed by an empty remove *)

\* the stores after processReceivedProposal(batches); remove({})
claimThenRemove(batches) ==
  LET r == claimFrom(batches, 1, batches_cache_, used_batches_cache_)
      m == BatchesContext_merge(r.cache, r.used)
  IN  [cache |-> BatchesContext_remove(m.to, {}), used |-> m.from]

----------------------------------------------------------------------------
(* What remove leaves alone *)

\* the hashes of the transactions of a batch
hashesOf(b) == {transactions(b)[k] : k \in DOMAIN transactions(b)}

\* C15: remove(hashes) keeps every batch none of whose transactions is in
\* hashes: from the available or in-flight set it is in the available set
\* afterwards, and in the pending store it keeps its entry, its signatures,
\* its timestamp and its key in mst_expirations_.
C15_RemoveKeepsOthers ==
  [][last'.op = "remove" =>
       /\ \A b \in batches_cache_.batches_ \cup used_batches_cache_.batches_ :
            hashesOf(b) \cap last'.hashes = {} => b \in batches_cache_'.batches_
       /\ \A rh \in pendingIds :
            hashesOf(mst_state_.mst_pending_[rh].batch) \cap last'.hashes = {} =>
              /\ rh \in DOMAIN mst_state_'.mst_pending_
              /\ mst_state_'.mst_pending_[rh] = mst_state_.mst_pending_[rh]
              /\ mst_state_.mst_pending_[rh].timestamp \in DOMAIN mst_state_'.mst_expirations_
              /\ mst_state_'.mst_expirations_[mst_state_.mst_pending_[rh].timestamp] = rh]_vars

\* a remove of some hashes has left a batch in the available set and an entry
\* in the pending store
C15_Witness ==
  /\ last.op = "remove"
  /\ last.hashes # {}
  /\ batches_cache_.batches_ # {}
  /\ pendingIds # {}

----------------------------------------------------------------------------
(* Signature merge *)

\* the batch of identity rh that the cache holds after an insert of a
\* partially signed batch: the pending entry, or the promoted batch
residentAfter(rh) ==
  IF rh \in DOMAIN mst_state_'.mst_pending_
  THEN mst_state_'.mst_pending_[rh].batch
  ELSE CHOOSE b \in batches_cache_'.batches_ : reducedHash(b) = rh

\* C16: when partially signed batches of one identity that was in no store
\* are inserted one after another, in any order, the resident batch carries
\* at every transaction position the union of the signatures inserted.
C16_MergeIsUnion ==
  [][(/\ last'.op = "insert"
      /\ ~hasAllSignatures(last'.batch)
      /\ run.rh = reducedHash(last'.batch)
      /\ \E k \in DOMAIN run.sigs : run.sigs[k] # Signers) =>
       /\ run.rh \in DOMAIN mst_state_'.mst_pending_
            \cup {reducedHash(b) : b \in batches_cache_'.batches_}
       /\ residentAfter(run.rh).sigs
            = [k \in DOMAIN run.sigs |-> run.sigs[k] \cup last'.batch.sigs[k]]]_vars

\* two partially signed batches of identity 2 were inserted, the second has
\* completed the first, and the resident batch has been promoted
C16_Witness ==
  /\ last.op = "insert"
  /\ last.outcome = "ok"
  /\ ~hasAllSignatures(last.batch)
  /\ run.rh = 2
  /\ run.sigs = Full(2).sigs
  /\ 2 \notin pendingIds
  /\ Full(2) \in batches_cache_.batches_

----------------------------------------------------------------------------
(* Timestamps of the pending store *)

\* the smallest number of a set
MinOf(S) == CHOOSE m \in S : \A x \in S : m <= x

\* the smallest createdTime of the transactions of a batch
minCreatedTime(b) ==
  MinOf({CreatedTimeOf[transactions(b)[k]] : k \in DOMAIN transactions(b)})

\* the smallest ts >= from that is not a key of expirations
smallestFree(expirations, from) ==
  CHOOSE ts \in from..(from + Cardinality(DOMAIN expirations)) :
    /\ ts \notin DOMAIN expirations
    /\ \A u \in from..(ts - 1) : u \in DOMAIN expirations

\* C17: a batch that enters the pending store gets the smallest timestamp,
\* from the smallest createdTime of its transactions on, that is not a key of
\* mst_expirations_.
C17_TimestampFromCreatedTime ==
  [][\A rh \in DOMAIN mst_state_'.mst_pending_ \ pendingIds :
       mst_state_'.mst_pending_[rh].timestamp
         = smallestFree(mst_state_.mst_expirations_,
                        minCreatedTime(mst_state_'.mst_pending_[rh].batch))]_vars

\* C18: mst_pending_ and mst_expirations_ have the same number of entries,
\* no two pending entries share a timestamp, and the timestamp of every
\* pending entry is a key of mst_expirations_ that leads to that entry.
C18_PendingIndicesAgree ==
  /\ Cardinality(DOMAIN mst_state_.mst_pending_) = Cardinality(DOMAIN mst_state_.mst_expirations_)
  /\ \A rh1, rh2 \in pendingIds :
       rh1 # rh2 => mst_state_.mst_pending_[rh1].timestamp # mst_state_.mst_pending_[rh2].timestamp
  /\ \A rh \in pendingIds :
       /\ mst_state_.mst_pending_[rh].timestamp \in DOMAIN mst_state_.mst_expirations_
       /\ mst_state_.mst_expirations_[mst_state_.mst_pending_[rh].timestamp] = rh

\* of two pending entries the one at the lower timestamp has been pruned
C18_Witness ==
  /\ last.op = "remove"
  /\ last.hashes # {}
  /\ \E rh \in pendingIds : mst_state_.mst_pending_[rh].timestamp = 1
  /\ Cardinality(pendingIds) = 1

\* C20: for as long as an identity keeps its pending entry, whatever is
\* inserted, claimed or removed, the entry keeps its timestamp and the key of
\* mst_expirations_ under that timestamp keeps leading to it.
C20_TimestampStable ==
  [][\A rh \in pendingIds \cap DOMAIN mst_state_'.mst_pending_ :
       /\ mst_state_'.mst_pending_[rh].timestamp = mst_state_.mst_pending_[rh].timestamp
       /\ mst_state_.mst_pending_[rh].timestamp \in DOMAIN mst_state_'.mst_expirations_
       /\ mst_state_'.mst_expirations_[mst_state_.mst_pending_[rh].timestamp] = rh]_vars

\* a partially signed batch with no new signature was inserted for the
\* identity whose incomplete pending entry has timestamp 1
C20_Witness ==
  /\ last.op = "insert"
  /\ last.outcome = "ok"
  /\ last.events = <<>>
  /\ reducedHash(last.batch) \in pendingIds
  /\ mst_state_.mst_pending_[reducedHash(last.batch)].batch # last.batch
  /\ ~hasAllSignatures(mst_state_.mst_pending_[reducedHash(last.batch)].batch)
  /\ mst_state_.mst_pending_[reducedHash(last.batch)].timestamp = 1

----------------------------------------------------------------------------
(* Readers during an insert *)

\* C19: a thread whose insert only adds a pending entry or merges signatures
\* into an entry that stays incomplete does not hold batches_cache_cs_, and a
\* reader waiting for the shared lock can take it.
C19_PendingInsertLeavesCacheFree ==
  \A t \in Threads :
    (/\ pc[t] = "insertMST_body"
     /\ LET rh == reducedHash(call[t].batch)
        IN  \/ rh \notin pendingIds
            \/ \E k \in DOMAIN call[t].batch.sigs :
                 mst_state_.mst_pending_[rh].batch.sigs[k] \cup call[t].batch.sigs[k] # Signers) =>
      /\ ~Holds(t, "L_cache")
      /\ \A u \in Threads : pc[u] = "read_lock" => CacheFreeShared

====
